---- MODULE Spec2Model ----
(***************************************************************************)
(* cargo-husky build script (build.rs): resolution of the git directory    *)
(* from OUT_DIR, detection of an already installed hook by its version     *)
(* comment, and generation of the hook script.                             *)
(*                                                                         *)
(* Text (file contents, lines, environment values) is a sequence of        *)
(* tokens; a token is a run of characters that never has to be split.      *)
(* LF and CR are the line-feed and carriage-return characters, BAD is a    *)
(* byte sequence that is not valid UTF-8.  A version is written one        *)
(* character per token, so that substring search sees its prefixes.        *)
(***************************************************************************)
EXTENDS Integers, Sequences, FiniteSets, TLC

VARIABLES
    outDir,     \* the OUT_DIR environment variable: [kind, path, text]
    gitEntry,   \* gitEntry[k+1]: what `.git` is in the ancestor of depth k
    gitFile,    \* content of the `.git` regular files
    features,   \* the cargo features the script was compiled with
    files,      \* <gitdir>/hooks: hook name -> [exists, data, mode]
    files0,     \* <gitdir>/hooks before the first build
    nbuilds,    \* how many times the build script has been started
    pc,         \* position of the running build script
    mpc,        \* position in main: which `if cfg!` comes next
    hook,       \* argument of the running install
    dir,        \* resolve_gitdir's `dir`
    iters,      \* completed iterations of resolve_gitdir's loop
    ret,        \* result of resolve_gitdir, then of main: [tag, path]
    existed,    \* what hook_already_exists returned in the running install
    pre,        \* the hook file when the running install started
    nwritten,   \* pieces of the script written by the running write_script
    installs    \* the finished install calls: [hook, existed, res, pre, post]

vars == <<outDir, gitEntry, gitFile, features, files, files0, nbuilds, pc, mpc,
          hook, dir, iters, ret, existed, pre, nwritten, installs>>

(***************************************************************************)
(* Bounds                                                                  *)
(***************************************************************************)
MaxDepth == 2

MaxBuilds == 2

(***************************************************************************)
(* Text                                                                    *)
(***************************************************************************)
LF == "<LF>"

CR == "<CR>"

BAD == "<BAD>"

RECURSIVE Concat(_)
Concat(ss) == IF ss = <<>> THEN <<>> ELSE Head(ss) \o Concat(Tail(ss))

EndsWith(s, pat) ==
    /\ Len(pat) <= Len(s)
    /\ SubSeq(s, Len(s) - Len(pat) + 1, Len(s)) = pat

\* str::trim_right_matches with a string pattern: the pattern is removed from
\* the end as a whole, as many times as it occurs there.
RECURSIVE trim_right_matches(_, _)
trim_right_matches(s, pat) ==
    IF pat # <<>> /\ EndsWith(s, pat)
    THEN trim_right_matches(SubSeq(s, 1, Len(s) - Len(pat)), pat)
    ELSE s

\* str::contains with a string pattern.
contains(line, pat) ==
    \E i \in 0..(Len(line) - Len(pat)) : SubSeq(line, i + 1, i + Len(pat)) = pat

FirstLF(s) ==
    IF \E i \in 1..Len(s) : s[i] = LF
    THEN CHOOSE i \in 1..Len(s) : s[i] = LF /\ \A j \in 1..(i - 1) : s[j] # LF
    ELSE 0

StripCR(l) == IF l # <<>> /\ l[Len(l)] = CR THEN SubSeq(l, 1, Len(l) - 1) ELSE l

\* BufRead::lines: lines end at LF, a CR before that LF is dropped with it; a
\* last line without LF is a line, an empty rest is not.
RECURSIVE lines(_)
lines(s) ==
    IF s = <<>> THEN <<>>
    ELSE LET i == FirstLF(s)
         IN  IF i = 0 THEN <<s>>
             ELSE <<StripCR(SubSeq(s, 1, i - 1))>> \o lines(SubSeq(s, i + 1, Len(s)))

\* A line that is not valid UTF-8 is read as Err.
ValidUtf8(l) == \A i \in 1..Len(l) : l[i] # BAD

(***************************************************************************)
(* Build-time values: env!("CARGO_PKG_VERSION"), env!("CARGO_PKG_HOMEPAGE"),*)
(* env!("CARGO_MANIFEST_DIR"), path::MAIN_SEPARATOR.                       *)
(***************************************************************************)
CARGO_PKG_VERSION == <<"0", ".", "1">>

CARGO_PKG_HOMEPAGE == <<"https://homepage">>

CARGO_MANIFEST_DIR == <<"/crate">>

MAIN_SEPARATOR == <<"/">>

(***************************************************************************)
(* The directory tree above OUT_DIR                                        *)
(***************************************************************************)
Names == <<"repo", "target", "debug", "build", "out">>

\* The ancestor of depth k of the start path (depth 0 is the root).
Ancestor(k) == SubSeq(Names, 1, k)

EntryKinds == {"none", "dir", "file", "other"}

\* Directories that exist outside the walked chain, by the text of their path.
ExistingDirs == {<<"/real/git/common/dir">>}

GitFileContents ==
    {pfx \o tgt \o term :
        pfx \in {<<>>, <<"gitdir: ">>},
        tgt \in {<<"/real/git/common/dir">>, <<"/gone">>},
        term \in {<<>>, <<LF>>, <<CR>>, <<CR, LF>>, <<LF, CR>>}}

OutDirKinds == {"absolute", "relative", "dangling", "unset"}

Ok(p) == [tag |-> "Ok", path |-> p]

Err(e) == [tag |-> e, path |-> <<>>]

NoRet == [tag |-> "none", path |-> <<>>]

\* Path::join (join_dir: the name is not appended)
join_dir(d, name) == d

join(d, name) == Append(d, name)

\* Path::is_dir / Path::is_file of <d>/.git, d on the walked chain.
is_dir(d) == gitEntry[Len(d) + 1] = "dir"

is_file(d) == gitEntry[Len(d) + 1] = "file"

\* Path::is_dir of a path given by its text.
text_is_dir(t) == t \in ExistingDirs

\* PathBuf::pop: FALSE at the root, else the last component is removed.
has_parent(d) == Len(d) > 0

\* (pop_stuck: the path is left as it is)
pop_stuck(d) == d

pop(d) == SubSeq(d, 1, Len(d) - 1)

NoFile == [exists |-> FALSE, data |-> <<>>, mode |-> 0]

Hooks == {"pre-push", "pre-commit", "post-merge"}

(***************************************************************************)
(* resolve_gitdir                                                          *)
(***************************************************************************)
ResolverVars == <<outDir, gitEntry, gitFile, features, files, files0, nbuilds,
                  mpc, hook, existed, pre, nwritten, installs>>

\* env::var("OUT_DIR")?, PathBuf::from, and canonicalize of a relative path.
resolve_enter ==
    /\ pc = "resolve"
    /\ IF outDir.kind = "unset" THEN
            /\ pc' = "resolved"
            /\ ret' = Err("OutDir")
            /\ dir' = <<>>
       ELSE IF outDir.kind = "dangling" THEN
            /\ pc' = "resolved"
            /\ ret' = Err("Io")
            /\ dir' = <<>>
       ELSE
            /\ pc' = "loop"
            /\ ret' = NoRet
            /\ dir' = outDir.path
    /\ iters' = 0
    /\ UNCHANGED ResolverVars

\* gitdir.is_dir(): return Ok(gitdir)
resolve_dir ==
    /\ pc = "loop"
    /\ is_dir(dir)
    /\ ret' = Ok(join(dir, ".git"))
    /\ pc' = "resolved"
    /\ UNCHANGED <<dir, iters>>
    /\ UNCHANGED ResolverVars

\* (resolve_file_skip: a file that names no directory is passed over and the
\* walk goes on)
resolve_file_skip ==
    /\ pc = "loop"
    /\ ~is_dir(dir)
    /\ is_file(dir)
    /\ \E readOk \in BOOLEAN :
          IF ~readOk THEN
               /\ ret' = Err("Io") /\ pc' = "resolved" /\ UNCHANGED <<dir, iters>>
          ELSE LET gitdir == trim_right_matches(gitFile, <<LF, CR>>)
               IN  IF text_is_dir(gitdir)
                   THEN /\ ret' = Ok(gitdir) /\ pc' = "resolved"
                        /\ UNCHANGED <<dir, iters>>
                   ELSE IF has_parent(dir)
                   THEN /\ dir' = pop(dir) /\ iters' = iters + 1
                        /\ UNCHANGED <<ret, pc>>
                   ELSE /\ ret' = Err("GitDirNotFound") /\ pc' = "resolved"
                        /\ UNCHANGED <<dir, iters>>
    /\ UNCHANGED ResolverVars

\* gitdir.is_file(): read it, trim, and return the path it names if that is a
\* directory.  Opening or reading the file may fail.
resolve_file ==
    /\ pc = "loop"
    /\ ~is_dir(dir)
    /\ is_file(dir)
    /\ \E readOk \in BOOLEAN :
          IF ~readOk THEN ret' = Err("Io")
          ELSE LET gitdir == trim_right_matches(gitFile, <<LF, CR>>)
               IN  IF text_is_dir(gitdir) THEN ret' = Ok(gitdir)
                   ELSE ret' = Err("GitDirNotFound")
    /\ pc' = "resolved"
    /\ UNCHANGED <<dir, iters>>
    /\ UNCHANGED ResolverVars

\* !dir.pop(): return Err(GitDirNotFound)
resolve_root ==
    /\ pc = "loop"
    /\ ~is_dir(dir)
    /\ ~is_file(dir)
    /\ ~has_parent(dir)
    /\ ret' = Err("GitDirNotFound")
    /\ pc' = "resolved"
    /\ UNCHANGED <<dir, iters>>
    /\ UNCHANGED ResolverVars

\* dir.pop() succeeded: next iteration
resolve_pop ==
    /\ pc = "loop"
    /\ ~is_dir(dir)
    /\ ~is_file(dir)
    /\ has_parent(dir)
    /\ dir' = pop(dir)
    /\ iters' = iters + 1
    /\ UNCHANGED <<ret, pc>>
    /\ UNCHANGED ResolverVars

resolve_gitdir ==
    \/ resolve_enter
    \/ resolve_dir
    \/ resolve_file
    \/ resolve_root
    \/ resolve_pop

\* Every tree of depth at most MaxDepth and every OUT_DIR; the call of
\* resolve_gitdir is about to be made.  The first `.git` file met is the only
\* one read, so one content stands for all of them.
InitResolve ==
    /\ \E d \in 0..MaxDepth :
         /\ gitEntry \in [1..(d + 1) -> EntryKinds]
         /\ \E k \in OutDirKinds :
              outDir = [kind |-> k, path |-> Ancestor(d), text |-> <<"/repo/out">>]
    /\ IF \E i \in DOMAIN gitEntry : gitEntry[i] = "file"
       THEN gitFile \in GitFileContents
       ELSE gitFile = <<>>
    /\ features = {"prepush-hook"}
    /\ files = [h \in Hooks |-> NoFile]
    /\ files0 = files
    /\ nbuilds = 1
    /\ pc = "resolve"
    /\ mpc = 1
    /\ hook = "pre-push"
    /\ dir = <<>>
    /\ iters = 0
    /\ ret = NoRet
    /\ existed = FALSE
    /\ pre = NoFile
    /\ nwritten = 0
    /\ installs = <<>>

SpecResolve == InitResolve /\ [][resolve_gitdir]_vars

(***************************************************************************)
(* write_script                                                            *)
(***************************************************************************)
\* The `script` block: the commands of the enabled features, tests first
\* (script_swapped: lint first).
script_swapped ==
    (IF "run-cargo-clippy" \in features
     THEN <<LF, "echo '+cargo clippy'", LF, "cargo clippy">> ELSE <<>>)
    \o (IF "run-cargo-test" \in features
        THEN <<LF, "echo '+cargo test'", LF, "cargo test">> ELSE <<>>)

script ==
    (IF "run-cargo-test" \in features
     THEN <<LF, "echo '+cargo test'", LF, "cargo test">> ELSE <<>>)
    \o (IF "run-cargo-clippy" \in features
        THEN <<LF, "echo '+cargo clippy'", LF, "cargo clippy">> ELSE <<>>)

\* writeln! hands the formatter the literal pieces of the format string and the
\* arguments in turn; each is written to the file with its own write_all.  The
\* last piece is the line feed writeln! adds.
PiecesOf(version) ==
    << <<"#!/bin/sh", LF, "#", LF, "# This hook was ", "set by cargo-husky v">>,
       version,
       <<": ">>,
       CARGO_PKG_HOMEPAGE,
       <<LF, "# Generated by script ">>,
       CARGO_MANIFEST_DIR,
       MAIN_SEPARATOR,
       <<"build.rs", LF, "# Output at ">>,
       outDir.text,
       <<LF, "#", LF, LF, "set -e", LF>>,
       script,
       <<LF>> >>

\* (Pieces_marker_late: one more comment line before the marker)
Pieces_marker_late ==
    << <<"#!/bin/sh", LF, "#", LF, "#", LF, "# This hook was ", "set by cargo-husky v">> >>
    \o Tail(PiecesOf(CARGO_PKG_VERSION))

Pieces == PiecesOf(CARGO_PKG_VERSION)

NPieces == Len(Pieces)

\* The whole text a successful write_script leaves in the file.
Script == Concat(Pieces)

(***************************************************************************)
(* hook_already_exists, create_script                                      *)
(***************************************************************************)
ver_comment == <<"set by cargo-husky v">> \o CARGO_PKG_VERSION

\* (hook_already_exists_never: every hook is taken as not installed)
hook_already_exists_never(f) == FALSE

\* File::open fails: false.  No third line, or a third line that cannot be
\* read as UTF-8: false.  Else whether the third line contains ver_comment.
hook_already_exists(f) ==
    IF ~f.exists THEN FALSE
    ELSE LET ls == lines(f.data)
         IN  IF Len(ls) < 3 THEN FALSE
             ELSE IF ~ValidUtf8(ls[3]) THEN FALSE
             ELSE contains(ls[3], ver_comment)

\* 0o755
ScriptMode == 493

\* OpenOptions write+create+truncate with mode(0o755): the mode is that of a
\* file the call creates; a file that is already there keeps its own.
create_script(f) ==
    [exists |-> TRUE,
     data   |-> <<>>,
     mode   |-> IF f.exists THEN f.mode ELSE ScriptMode]

(***************************************************************************)
(* install, main                                                           *)
(***************************************************************************)
MainHooks == <<"pre-push", "pre-commit", "post-merge">>

MainFeatures == <<"prepush-hook", "precommit-hook", "postmerge-hook">>

Finished(res) ==
    [hook |-> hook, existed |-> existed', res |-> res, pre |-> pre, post |-> files'[hook]]

\* install returned Ok(()): main goes on to its next `if`.
InstallOk ==
    /\ installs' = Append(installs, Finished("Ok"))
    /\ mpc' = mpc + 1
    /\ pc' = "main"

\* install returned Err(e): main returns it.
InstallErr(e) ==
    /\ installs' = Append(installs, Finished(e.tag))
    /\ ret' = e
    /\ pc' = "done"
    /\ UNCHANGED mpc

Fs == <<outDir, gitEntry, gitFile, features, files0>>

\* main: the next `if cfg!(feature = ...)`, calling install when it is enabled.
main_step ==
    /\ pc = "main"
    /\ IF mpc > Len(MainHooks) THEN
            /\ pc' = "done"
            /\ ret' = Ok(<<>>)
            /\ UNCHANGED <<mpc, hook, pre>>
       ELSE IF MainFeatures[mpc] \in features THEN
            /\ hook' = MainHooks[mpc]
            /\ pre' = files[MainHooks[mpc]]
            /\ pc' = "resolve"
            /\ UNCHANGED <<mpc, ret>>
       ELSE
            /\ mpc' = mpc + 1
            /\ UNCHANGED <<pc, hook, pre, ret>>
    /\ UNCHANGED <<Fs, files, nbuilds, dir, iters, existed, nwritten, installs>>

\* install: `resolve_gitdir()?`, the hook path, and hook_already_exists.
install_check ==
    /\ pc = "resolved"
    /\ UNCHANGED <<Fs, files, nbuilds, hook, dir, iters, pre, nwritten>>
    /\ IF ret.tag # "Ok" THEN
            /\ existed' = FALSE
            /\ InstallErr(ret)
       ELSE
            /\ existed' = hook_already_exists(files[hook])
            /\ IF existed'
               THEN InstallOk /\ UNCHANGED ret
               ELSE pc' = "create" /\ UNCHANGED <<ret, mpc, installs>>

\* install: `create_script(hook_path)?`
install_create ==
    /\ pc = "create"
    /\ UNCHANGED <<Fs, nbuilds, hook, dir, iters, existed, pre>>
    /\ \E ok \in BOOLEAN :
          IF ok THEN
               /\ files' = [files EXCEPT ![hook] = create_script(files[hook])]
               /\ nwritten' = 0
               /\ pc' = "write"
               /\ UNCHANGED <<ret, mpc, installs>>
          ELSE
               /\ UNCHANGED <<files, nwritten>>
               /\ InstallErr(Err("Io"))

\* write_script: one write_all of the next piece, which is written or fails
\* (an empty piece writes nothing and cannot fail).  After the last piece
\* write_script and install return Ok(()).
install_write ==
    /\ pc = "write"
    /\ UNCHANGED <<Fs, nbuilds, hook, dir, iters, existed, pre>>
    /\ LET piece == Pieces[nwritten + 1] IN
       \E ok \in BOOLEAN :
          IF ok \/ piece = <<>> THEN
               /\ files' = [files EXCEPT ![hook].data = @ \o piece]
               /\ nwritten' = nwritten + 1
               /\ IF nwritten' = NPieces
                  THEN InstallOk /\ UNCHANGED ret
                  ELSE UNCHANGED <<pc, ret, mpc, installs>>
          ELSE
               /\ UNCHANGED <<files, nwritten>>
               /\ InstallErr(Err("Io"))

\* The build script is run again, by the next build.
rebuild ==
    /\ pc = "done"
    /\ nbuilds < MaxBuilds
    /\ nbuilds' = nbuilds + 1
    /\ pc' = "main"
    /\ mpc' = 1
    /\ ret' = NoRet
    /\ UNCHANGED <<Fs, files, hook, dir, iters, existed, pre, nwritten, installs>>

Next ==
    \/ main_step
    \/ resolve_gitdir
    \/ install_check
    \/ install_create
    \/ install_write
    \/ rebuild

(***************************************************************************)
(* The states a build starts from                                          *)
(***************************************************************************)
Tree(path, entries, content, text) ==
    [outDir   |-> [kind |-> "absolute", path |-> path, text |-> text],
     gitEntry |-> entries,
     gitFile  |-> content]

\* A repository with OUT_DIR two levels below its root.
Repository ==
    Tree(<<"repo", "target">>, <<"none", "dir", "none">>, <<>>, <<"/repo/target">>)

\* The same with a line feed in the name of OUT_DIR, a worktree whose `.git`
\* file holds the bare path of its git directory, and a directory outside any
\* repository.
OtherTrees ==
    { Tree(<<"repo", "target">>, <<"none", "dir", "none">>, <<>>, <<"/repo/tar", LF, "get">>),
      Tree(<<"repo">>, <<"none", "file">>, <<"/real/git/common/dir">>, <<"/repo">>),
      Tree(<<"repo">>, <<"none", "none">>, <<>>, <<"/repo">>) }

FeatureSets ==
    { {"prepush-hook", "run-cargo-test"},
      {"precommit-hook", "run-cargo-clippy"},
      {"prepush-hook", "precommit-hook", "run-cargo-test", "run-cargo-clippy"},
      {"postmerge-hook"} }

File(data, mode) == [exists |-> TRUE, data |-> data, mode |-> mode]

\* 0o644: ScriptMode without the execute bits (0o111)
PlainMode == ScriptMode - 73

\* What a hook file can be before the build: absent, empty, written by hand
\* (executable or not, with or without a third line), carrying this version's
\* marker on a third line that is not UTF-8 or that ends in CR LF, or generated
\* by this version, by another one, or by one whose number starts with this
\* one's.
InitialHookFiles ==
    { NoFile,
      File(<<>>, PlainMode),
      File(<<"#!/bin/sh", LF, "make test", LF>>, ScriptMode),
      File(<<"#!/bin/sh", LF, "#", LF, "make test", LF>>, ScriptMode),
      File(<<"#!/bin/sh", LF, "#", LF, "make test", LF>>, PlainMode),
      File(<<"#!/bin/sh", LF, "#", LF, "# ", BAD, " ">> \o ver_comment \o <<": ">>
               \o CARGO_PKG_HOMEPAGE \o <<LF>>, ScriptMode),
      File(<<"#!/bin/sh", CR, LF, "#", CR, LF, "# This hook was ">> \o ver_comment \o <<": ">>
               \o CARGO_PKG_HOMEPAGE \o <<CR, LF, "#", CR, LF, "cargo test", CR, LF>>, ScriptMode),
      File(Script, ScriptMode),
      File(Concat(PiecesOf(<<"0", ".", "2">>)), ScriptMode),
      File(Concat(PiecesOf(<<"0", ".", "1", "0">>)), ScriptMode) }

\* Every hook file starts out the same way: in any of the ways above in the
\* repository, absent or written by hand in the other trees.
Init ==
    /\ features \in FeatureSets
    /\ \E t \in {Repository} \cup OtherTrees :
         /\ outDir = t.outDir
         /\ gitEntry = t.gitEntry
         /\ gitFile = t.gitFile
         /\ \E f \in InitialHookFiles :
              /\ t # Repository =>
                    f \in {NoFile, File(<<"#!/bin/sh", LF, "make test", LF>>, ScriptMode)}
              /\ files = [h \in Hooks |-> f]
    /\ files0 = files
    /\ nbuilds = 1
    /\ pc = "main"
    /\ mpc = 1
    /\ hook = "pre-push"
    /\ dir = <<>>
    /\ iters = 0
    /\ ret = NoRet
    /\ existed = FALSE
    /\ pre = NoFile
    /\ nwritten = 0
    /\ installs = <<>>

Spec == Init /\ [][Next]_vars

(***************************************************************************)
(* Properties of install and write_script (checked under Spec)             *)
(***************************************************************************)
\* The marker comment of this version.
Marker == ver_comment \o <<": ">> \o CARGO_PKG_HOMEPAGE

\* The third line of file f contains pat.
ThirdLineHas(f, pat) ==
    /\ f.exists
    /\ Len(lines(f.data)) >= 3
    /\ contains(lines(f.data)[3], pat)

\* ... and is text.
ThirdLineReads(f, pat) ==
    /\ ThirdLineHas(f, pat)
    /\ ValidUtf8(lines(f.data)[3])

Calls == 1..Len(installs)

\* Calls i and j are two successive install calls for the same hook, and both
\* returned Ok.
TwoInstalls(i, j) ==
    /\ i < j
    /\ installs[i].hook = installs[j].hook
    /\ \A k \in Calls : (i < k /\ k < j) => installs[k].hook # installs[i].hook
    /\ installs[i].res = "Ok"
    /\ installs[j].res = "Ok"

\* An install call that went through create_script and write_script.
Wrote(e) == e.res = "Ok" /\ ~e.existed

\* hook_already_exists and the marker agree on file f.
MarkerDecides(f) == ThirdLineReads(f, ver_comment) <=> ThirdLineHas(f, Marker)

\* C1 as stated: of two successive installs of a hook the first writes the
\* file and the second finds the marker and leaves the file as it is (on the
\* files on which hook_already_exists and the marker agree).
C1_AsStated ==
    \A i, j \in Calls :
        (TwoInstalls(i, j) /\ MarkerDecides(installs[i].pre)) =>
            /\ Wrote(installs[i])
            /\ installs[j].existed
            /\ installs[j].post = installs[j].pre

\* C1 amended: two successive installs of a hook write the file at most once:
\* once when its third line did not hold this version's comment (or there was
\* none), not at all when it did; either way the second one finds the comment
\* on the third line and leaves the file as it is.
C1_Idempotent ==
    \A i, j \in Calls :
        TwoInstalls(i, j) =>
            /\ Wrote(installs[i]) <=> ~ThirdLineReads(installs[i].pre, ver_comment)
            /\ ~Wrote(installs[i]) => installs[i].post = installs[i].pre
            /\ installs[j].pre = installs[i].post
            /\ ThirdLineHas(installs[j].pre, ver_comment)
            /\ installs[j].existed
            /\ installs[j].post = installs[j].pre

C1_Witness ==
    \E i, j \in Calls :
        /\ TwoInstalls(i, j)
        /\ ~installs[i].pre.exists
        /\ Wrote(installs[i])
        /\ installs[j].existed
        /\ installs[j].post = File(Script, ScriptMode)
        /\ files[installs[j].hook] = File(Script, ScriptMode)

OtherVersions == {<<"0", ".", "2">>, <<"0", ".", "1", "0">>}

\* No line of the file mentions cargo-husky: somebody else's hook.
ThirdParty(f) ==
    /\ f.exists
    /\ f.data # <<>>
    /\ \A i \in 1..Len(lines(f.data)) : ~contains(lines(f.data)[i], <<"set by cargo-husky v">>)

\* The file carries the marker of another version.
NewerMarker(f) ==
    \E v \in OtherVersions :
        ThirdLineHas(f, <<"set by cargo-husky v">> \o v \o <<": ">> \o CARGO_PKG_HOMEPAGE)

\* C2 as stated: install changes a hook file only if it is absent or lacks the
\* marker of this version, and leaves a third-party hook and a hook with a
\* newer version's marker untouched.
C2_AsStated ==
    \A i \in Calls :
        LET e == installs[i] IN
        /\ e.post # e.pre => (~e.pre.exists \/ ~ThirdLineHas(e.pre, Marker))
        /\ (ThirdParty(e.pre) \/ NewerMarker(e.pre)) => e.post.data = e.pre.data

\* C2 amended: install changes a hook file only if it is absent or its third
\* line, read as text, lacks the marker of this version: a file that has it is
\* never opened for writing and is the same after the call.
C2_NoClobber ==
    /\ \A i \in Calls :
          ThirdLineReads(installs[i].pre, Marker) =>
              /\ installs[i].res = "Ok" => installs[i].existed
              /\ installs[i].post = installs[i].pre
    /\ pc \in {"create", "write"} =>
          /\ ~ThirdLineReads(pre, Marker)
          /\ \A h \in Hooks \ {hook} : ThirdLineReads(files0[h], Marker) => files[h] = files0[h]

C2_Witness ==
    /\ \E i, j \in Calls :
          /\ i # j
          /\ ThirdLineReads(installs[i].pre, Marker)
          /\ installs[i].pre = files0[installs[i].hook]
          /\ installs[i].res = "Ok"
          /\ installs[i].existed
          /\ installs[i].post = installs[i].pre
    /\ files = files0
    /\ nbuilds = 2
    /\ pc = "done"

\* C3: an existing hook file whose third line does not contain the marker of
\* this version is reported as not installed, and a completed install leaves
\* the generated script in it.
C3_Overwrite ==
    \A i \in Calls :
        LET e == installs[i] IN
        (e.pre.exists /\ ~ThirdLineHas(e.pre, Marker) /\ e.res \in {"Ok", "Io"})
            => /\ ~e.existed
               /\ e.res = "Ok" => e.post.data = Script

OwnerExec(mode) == (mode \div 64) % 2 = 1

\* C7: after an install that wrote the script the hook file is executable by
\* its owner.
C7_Executable ==
    \A i \in Calls :
        Wrote(installs[i]) => OwnerExec(installs[i].post.mode)

\* The echo and the command of every enabled group, tests before lint.
GroupLines ==
    (IF "run-cargo-test" \in features
     THEN << <<"echo '+cargo test'">>, <<"cargo test">> >> ELSE <<>>)
    \o (IF "run-cargo-clippy" \in features
        THEN << <<"echo '+cargo clippy'">>, <<"cargo clippy">> >> ELSE <<>>)

HasLF(t) == \E i \in 1..Len(t) : t[i] = LF

\* C8 as stated: shebang on line 1, marker on line 3, `#` on line 6, `set -e`
\* on line 7, then echo and command of each enabled group in order.
C8_AsStated ==
    \A i \in Calls :
        (Wrote(installs[i]) /\ ~HasLF(outDir.text)) =>
            LET ls == lines(installs[i].post.data) IN
            /\ ls[1] = <<"#!/bin/sh">>
            /\ contains(ls[3], Marker)
            /\ ls[6] = <<"#">>
            /\ ls[7] = <<"set -e">>
            /\ SubSeq(ls, 8, Len(ls)) = GroupLines

\* C8 amended: shebang on line 1 and marker on line 3; when OUT_DIR holds no
\* line feed, `#` on line 6, an empty line 7, `set -e` on line 8, an empty
\* line 9, and from line 10 the echo and the command of each enabled group,
\* tests before lint, and nothing else.
C8_Layout ==
    \A i \in Calls :
        Wrote(installs[i]) =>
            LET ls == lines(installs[i].post.data) IN
            /\ installs[i].post.data = Script
            /\ ls[1] = <<"#!/bin/sh">>
            /\ ls[2] = <<"#">>
            /\ ls[3] = <<"# This hook was ">> \o Marker
            /\ ~HasLF(outDir.text) =>
                  /\ ls[6] = <<"#">>
                  /\ ls[7] = <<>>
                  /\ ls[8] = <<"set -e">>
                  /\ ls[9] = <<>>
                  /\ SubSeq(ls, 10, Len(ls)) = GroupLines

C8_Witness ==
    \E i \in Calls :
        /\ Wrote(installs[i])
        /\ ~HasLF(outDir.text)
        /\ {"run-cargo-test", "run-cargo-clippy"} \subseteq features
        /\ Len(lines(installs[i].post.data)) = 13
        /\ lines(installs[i].post.data)[8] = <<"set -e">>

\* No hook file held this version's comment before the first build.
NoMarkerAtStart == \A h \in Hooks : ~ThirdLineHas(files0[h], ver_comment)

\* C10: between install calls, a hook file whose third line contains the
\* marker of this version holds the whole generated script.
C10_MarkerImpliesComplete ==
    (NoMarkerAtStart /\ pc \in {"main", "done"}) =>
        \A h \in Hooks : ThirdLineHas(files[h], Marker) => files[h].data = Script

(***************************************************************************)
(* Properties of resolve_gitdir (checked under SpecResolve)                *)
(***************************************************************************)
\* OUT_DIR names an existing directory: there is a start path.
StartOk == outDir.kind \in {"absolute", "relative"}

Depth == Len(outDir.path)

Levels == 0..Depth

HasGitDirAt(k) == k \in Levels /\ gitEntry[k + 1] = "dir"

\* The `.git` directory of depth k is the nearest one to the start path.
NearestGitDir(k) ==
    /\ HasGitDirAt(k)
    /\ \A j \in Levels : j > k => gitEntry[j + 1] # "dir"

\* The first `.git` directory or regular file met walking up is a file, at depth k.
FirstEntryIsFile(k) ==
    /\ k \in Levels
    /\ gitEntry[k + 1] = "file"
    /\ \A j \in Levels : j > k => gitEntry[j + 1] \notin {"dir", "file"}

NoGitAnywhere == \A k \in Levels : gitEntry[k + 1] = "none"

\* C4 as stated: whenever a `.git` directory exists at the start path or at an
\* ancestor, resolve_gitdir returns the path of the nearest such directory.
C4_AsStated ==
    \A k \in Levels :
        (pc = "resolved" /\ StartOk /\ NearestGitDir(k) /\ ret.tag # "Io")
            => ret = Ok(Append(Ancestor(k), ".git"))

\* C4 amended: ... provided no `.git` regular file lies nearer to the start
\* path than that directory.
C4_WalkUp ==
    \A k \in Levels :
        (/\ pc = "resolved" /\ StartOk /\ NearestGitDir(k)
         /\ \A j \in Levels : j > k => gitEntry[j + 1] # "file")
            => ret = Ok(Append(Ancestor(k), ".git"))

C4_Witness ==
    /\ pc = "resolved" /\ StartOk /\ Depth >= 2
    /\ NearestGitDir(0)
    /\ \A j \in Levels : j > 0 => gitEntry[j + 1] # "file"
    /\ iters = Depth
    /\ ret = Ok(<<".git">>)

\* C5: a `.git` file holding the path of an existing directory, with or
\* without the `gitdir: ` prefix, followed by LF, CR or CRLF, resolves to that
\* directory with the terminator removed.
C5_Dereference ==
    \A k \in Levels :
      \A pfx \in {<<>>, <<"gitdir: ">>} :
        \A tgt \in ExistingDirs :
          \A term \in {<<LF>>, <<CR>>, <<CR, LF>>} :
            (/\ pc = "resolved" /\ StartOk /\ FirstEntryIsFile(k)
             /\ ret.tag # "Io"
             /\ gitFile = pfx \o tgt \o term)
                => ret = Ok(tgt)

\* C6: with no `.git` entry at the start path or above it, every iteration of
\* the loop removes one component, the loop can always take its next step, and
\* the call ends in GitDirNotFound, never in a path.
C6_NotFound ==
    (StartOk /\ NoGitAnywhere) =>
        /\ pc = "loop" =>
              /\ Len(dir) + iters = Depth
              /\ dir = Ancestor(Depth - iters)
              /\ ret = NoRet
              /\ ENABLED resolve_gitdir
        /\ pc = "resolved" =>
              /\ ret = Err("GitDirNotFound")
              /\ iters = Depth
              /\ dir = <<>>

C6_Witness ==
    /\ StartOk /\ NoGitAnywhere /\ Depth >= 2
    /\ pc = "resolved" /\ ret = Err("GitDirNotFound") /\ iters = Depth

\* C9: when the first `.git` entry met is a regular file that was read and the
\* path it holds is not an existing directory, resolve_gitdir returns
\* GitDirNotFound from that very iteration, whatever lies above.
C9_HardFailure ==
    \A k \in Levels :
        (/\ pc = "resolved" /\ StartOk /\ FirstEntryIsFile(k)
         /\ ret.tag # "Io"
         /\ ~text_is_dir(trim_right_matches(gitFile, <<LF, CR>>)))
            => /\ ret = Err("GitDirNotFound")
               /\ dir = Ancestor(k)
               /\ iters = Depth - k

C9_Witness ==
    /\ pc = "resolved" /\ StartOk /\ FirstEntryIsFile(1)
    /\ HasGitDirAt(0)
    /\ gitFile = <<"/gone">>
    /\ ret = Err("GitDirNotFound")
    /\ dir = Ancestor(1)

====
